---- MODULE Spec2Model ----
(***************************************************************************)
(* SNI certificate resolution, from ext/tls/tls_key.rs: TlsKeyResolver     *)
(* (client side, with its cache and background completion tasks),          *)
(* TlsKeyLookup (server side, with its request channel and pending map),   *)
(* the ServerConfigProvider built by into_server_config_provider with its  *)
(* worker task, the TlsKeysHolder and the TlsKeys conversions; and the     *)
(* path interception of EszipFileSystem, from cli/standalone/eszip_vfs.rs. *)
(*                                                                         *)
(* Everything of the resolver runs on one thread under cooperative         *)
(* scheduling (Rc and RefCell are not Send), so each action is the code a  *)
(* task runs between two suspension points.                                *)
(***************************************************************************)
EXTENDS Integers, Sequences, FiniteSets, Bags, TLC

\* ------------------------------------------------------------------ bounds
\* number of resolve() calls whose future is neither awaited to completion
\* nor discarded yet
MaxCalls == 2
\* number of TlsKeyResolver handles the application holds at once
MaxHandles == 2
\* number of TlsKeyLookup::poll futures the application may have in flight
MaxPolls == 2

\* number of TlsKeysHolder::take calls
MaxTakes == 3

\* number of handshakes that call the ServerConfigProvider
MaxHandshakes == 3

\* capacity of the per-hostname broadcast channel
BroadcastCap == 1

\* hostnames the application asks for
Hosts == {"example1.com", "example2.com"}

\* the hostnames that can be keys of the cache: those, and the empty string
\* that stands for a handshake without SNI
Names == Hosts \cup {""}

\* ------------------------------------------------------------------ values
\* TlsKey(Vec<Certificate>, PrivateKey) as built by the tests
tls_key_for_test(sni) == [certs |-> <<sni \o "-cert">>, key |-> sni \o "-key"]

NoKey == [certs |-> <<>>, key |-> ""]

\* Result<TlsKey, _>
Ok(k) == [ok |-> TRUE, key |-> k, err |-> ""]
Err(e) == [ok |-> FALSE, key |-> NoKey, err |-> e]

\* results the driving side may hand to TlsKeyLookup::resolve for sni: the
\* key of that hostname, or a failure
Answers(sni) == {Ok(tls_key_for_test(sni)), Err("lookup-error")}

\* res.map_err(|_| anyhow!("Failed"))
MapErrFailed(res) == IF res.ok THEN res ELSE Err("Failed")

\* TlsKeyState and the absent map entry; chan and next are the Receiver
Absent == [st |-> "Absent", chan |-> 0, next |-> 0, res |-> Err("")]
Resolving(c, n) == [st |-> "Resolving", chan |-> c, next |-> n, res |-> Err("")]
Resolved(r) == [st |-> "Resolved", chan |-> 0, next |-> 0, res |-> r]

\* a broadcast Sender: the k-th channel created for hostname sni
Sender(sni, k) == [sni |-> sni, k |-> k]
NoSender == [sni |-> "", k |-> 0]

\* the keys that occur: those of the hostnames and the one the tests expect
Keys == {tls_key_for_test(h) : h \in Hosts \cup {"example.com"}}

\* enum TlsKeys { Null, Static(TlsKey), Resolver(TlsKeyResolver) }; a
\* TlsKeyResolver value is named by the Rc it holds
Null == [tag |-> "Null", key |-> NoKey, resolver |-> ""]
Static(k) == [tag |-> "Static", key |-> k, resolver |-> ""]
Resolver(r) == [tag |-> "Resolver", key |-> NoKey, resolver |-> r]

TlsKeysValues ==
  {Null} \cup {Static(k) : k \in Keys}
         \cup {Resolver(r) : r \in {"inner-1", "inner-2"}}

\* Option<TlsKey>
None == [some |-> FALSE, key |-> NoKey]
Some(k) == [some |-> TRUE, key |-> k]

OptionValues == {None} \cup {Some(k) : k \in Keys}

\* Result<Option<TlsKey>, TlsKeys>
OkOption(o) == [ok |-> TRUE, val |-> o, err |-> Null]
ErrKeys(v) == [ok |-> FALSE, val |-> None, err |-> v]

\* (variant) the conversion of a Resolver fails with the default value
try_into_LosesResolver(v) ==
  IF v.tag = "Null" THEN OkOption(None)
  ELSE IF v.tag = "Static" THEN OkOption(Some(v.key))
  ELSE ErrKeys(Null)

\* impl TryInto<Option<TlsKey>> for TlsKeys
try_into(v) ==
  IF v.tag = "Null" THEN OkOption(None)
  ELSE IF v.tag = "Static" THEN OkOption(Some(v.key))
  ELSE ErrKeys(v)

\* impl From<Option<TlsKey>> for TlsKeys
from(o) == IF o.some THEN Static(o.key) ELSE Null

\* TlsKeys::default()
Default == Null

\* (variant) take() returns a clone and leaves the value in the holder
HolderAfterTake_Keep(v) == v

\* std::mem::take(&mut *self.0.borrow_mut()): what stays in the holder
HolderAfterTake(v) == Default

\* no conversion made yet
NoConv == [op |-> "none", arg |-> Null, opt |-> None, out |-> OkOption(None),
           keys |-> Null]

\* hello.server_name(): Option<&str>
NoSni == [some |-> FALSE, name |-> ""]
Sni(h) == [some |-> TRUE, name |-> h]

Hellos == {NoSni} \cup {Sni(h) : h \in Hosts}

\* hello.server_name().unwrap_or_default().to_owned()
server_name_or_default(hello) == IF hello.some THEN hello.name ELSE ""

\* the alpn protocols given to into_server_config_provider
Alpn == <<"h2">>

\* a key that with_single_cert rejects, and the keys that it accepts
MalformedKey == [certs |-> <<"garbage">>, key |-> "garbage"]
ValidKeys == {tls_key_for_test(h) : h \in Names}

\* Result<Arc<ServerConfig>, AnyError>
NoConfig == [key |-> NoKey, alpn |-> <<>>]
OkConfig(k, alpn) ==
  [ok |-> TRUE, config |-> [key |-> k, alpn |-> alpn], err |-> ""]
ErrConfig(e) == [ok |-> FALSE, config |-> NoConfig, err |-> e]

\* (variant) a key that cannot be used yields a configuration without it
resolve_internal_NoCheck(res, alpn) ==
  IF ~res.ok THEN ErrConfig(res.err)
  ELSE IF res.key \in ValidKeys THEN OkConfig(res.key, alpn)
  ELSE OkConfig(NoKey, alpn)

\* resolve_internal, once self.resolve(sni) has completed with res
resolve_internal(res, alpn) ==
  IF ~res.ok THEN ErrConfig(res.err)
  ELSE IF res.key \in ValidKeys THEN OkConfig(res.key, alpn)
  ELSE ErrConfig("with_single_cert")

\* the oneshot channel of a handshake: made for hello, open, answered
\* with a result, or closed by the drop of its Sender
Oneshot(hello, sni) ==
  [hello |-> hello, sni |-> sni, st |-> "open", val |-> ErrConfig("")]
OneshotSend(o, v) == [o EXCEPT !.st = "sent", !.val = v]
OneshotClose(o) == IF o.st = "open" THEN [o EXCEPT !.st = "closed"] ELSE o

\* io::Result<Arc<ServerConfig>>; the future that has not completed
Pending == [st |-> "pending", ok |-> FALSE, config |-> NoConfig, kind |-> ""]
IoOk(c) == [st |-> "ready", ok |-> TRUE, config |-> c, kind |-> ""]
IoError(kind) ==
  [st |-> "ready", ok |-> FALSE, config |-> NoConfig, kind |-> kind]

\* rxr.map(|res| match res { .. }): the future the callback returns
ProviderFuture(o) ==
  IF o.st = "open" THEN Pending
  ELSE IF o.st = "closed" THEN IoError("InvalidData")
  ELSE IF o.val.ok THEN IoOk(o.val.config)
  ELSE IoError("InvalidData")

\* ------------------------------------------------------- EszipFileSystem
\* a path is the sequence of its components
Paths == {<<>>, <<"vfs">>, <<"vfs", "a">>, <<"vfs", "a", "b">>, <<"vfsx">>,
          <<"tmp", "a">>}
Roots == {<<"vfs">>, <<"vfs", "a">>}
NoPath == <<"">>

\* Path::starts_with: base is a prefix of path, component by component
starts_with(path, base) ==
  /\ Len(base) <= Len(path)
  /\ \A i \in 1..Len(base) : path[i] = base[i]

\* EszipFileSystem::is_path_within
is_path_within(root, path) == starts_with(path, root)

\* FsResult: the error, the given path, or whatever RealFs returns
NotSupported == [kind |-> "NotSupported", path |-> NoPath]
OkPath(path) == [kind |-> "Ok", path |-> path]
RealFs == [kind |-> "RealFs", path |-> NoPath]

\* EszipFileSystem::error_if_in_vfs(path)?; then the delegation to RealFs
error_if_in_vfs(root, path) ==
  IF is_path_within(root, path) THEN NotSupported ELSE RealFs

\* the methods that take one path and start with error_if_in_vfs(path)?
CheckedOps ==
  {"chdir", "mkdir_sync", "mkdir_async", "chmod_sync", "chmod_async",
   "chown_sync", "chown_async", "remove_sync", "remove_async",
   "truncate_sync", "truncate_async", "utime_sync", "utime_async"}

\* the methods that take one path and branch on is_path_within(path)
BranchOps ==
  {"open_async", "stat_sync", "stat_async", "lstat_sync", "lstat_async",
   "read_dir_sync", "read_dir_async", "read_link_sync", "read_link_async"}

RealpathOps == {"realpath_sync", "realpath_async"}

\* the methods that take two paths and check both with error_if_in_vfs
BothCheckedOps ==
  {"rename_sync", "rename_async", "link_sync", "link_async",
   "symlink_sync", "symlink_async"}

CopyFileOps == {"copy_file_sync", "copy_file_async"}
CpOps == {"cp_sync", "cp_async"}

OnePathOps == CheckedOps \cup BranchOps \cup RealpathOps \cup {"open_sync"}
TwoPathOps == BothCheckedOps \cup CopyFileOps \cup CpOps

\* what the method op of impl FileSystem for EszipFileSystem returns for
\* the paths a and b (b is the second path of a method that takes two)
EszipFileSystem(op, root, a, b) ==
  IF op \in CheckedOps THEN error_if_in_vfs(root, a)
  ELSE IF op \in BranchOps
    THEN IF is_path_within(root, a) THEN NotSupported ELSE RealFs
  ELSE IF op = "open_sync" THEN NotSupported
  ELSE IF op \in RealpathOps
    THEN IF is_path_within(root, a) THEN OkPath(a) ELSE RealFs
  ELSE IF op \in BothCheckedOps
    THEN IF error_if_in_vfs(root, a) = NotSupported THEN NotSupported
         ELSE error_if_in_vfs(root, b)
  ELSE IF op \in CopyFileOps
    THEN IF error_if_in_vfs(root, b) = NotSupported THEN NotSupported
         ELSE IF is_path_within(root, a) THEN NotSupported ELSE RealFs
  ELSE \* cp_sync, cp_async: only `to` is checked
       error_if_in_vfs(root, b)

NoFsCall == [op |-> "none", a |-> NoPath, b |-> NoPath, out |-> RealFs]

VARIABLES
  cache,      \* TlsKeyResolverInner.cache : hostname -> TlsKeyState
  rc,         \* strong count of the Rc<TlsKeyResolverInner>
  handles,    \* TlsKeyResolver handles held by the application
  queue,      \* resolution_tx/resolution_rx: the Senders of the queued
              \* (sni, sender) messages
  chans,      \* hostname -> the broadcast channels created for it
  calls,      \* bag of records, one per resolve() call: its future, its task
  lookup,     \* the TlsKeyLookup: "alive", "dropped", or "panicked" (dropped
              \* by the unwinding of a panic in the task that drives it)
  pending,    \* TlsKeyLookup.pending : hostname -> Sender
  polls,      \* number of suspended futures of TlsKeyLookup::poll
  hist,       \* history of what happened (not program state)
  holder,     \* TlsKeysHolder: the TlsKeys in its RefCell
  built,      \* the TlsKeys the holder was built from (not program state)
  got,        \* the values returned by the take() calls so far
  conv,       \* the last conversion between TlsKeys and Option<TlsKey>
  provider,   \* the ServerConfigProvider closure, which owns tx: "none",
              \* "alive" or "dropped"
  requests,   \* tx/rx: the queued (sni, txr) handshake requests
  worker,     \* the task spawned by into_server_config_provider
  reply,      \* the oneshot channel txr/rxr of each handshake
  served,     \* the handshakes in the order of their replies (not program
              \* state)
  root_path,  \* EszipFileSystem: Inner.root_path
  fscall      \* the last call of a FileSystem method and what it returned

keysVars == <<holder, built, got, conv>>
providerVars == <<provider, requests, worker, reply, served>>

vfsVars == <<root_path, fscall>>

\* the state outside the resolver and the lookup
others == <<keysVars, providerVars, vfsVars>>

vars == <<cache, rc, handles, queue, chans, calls, lookup, pending, polls,
          hist, others>>

\* ------------------------------------------------- tokio broadcast channel
\* broadcast::channel(1): the values sent so far and whether the Sender lives
NewChan == [buf |-> <<>>, tx |-> TRUE]

\* Receiver::resubscribe (and the Receiver of channel()): a receiver placed
\* at the current tail, which sees only values sent after this point
Resubscribe(ch) == Len(ch.buf)

\* Receiver::recv for a receiver at position next
BroadcastRecv(ch, next) ==
  IF next < Len(ch.buf)
    THEN IF Len(ch.buf) - next > BroadcastCap
           THEN [kind |-> "lagged", val |-> Err("")]
           ELSE [kind |-> "value", val |-> ch.buf[next + 1]]
    ELSE IF ch.tx THEN [kind |-> "empty", val |-> Err("")]
                  ELSE [kind |-> "closed", val |-> Err("")]

\* Sender::send followed by the drop of the Sender
SendAndDrop(cs, s, r) ==
  [cs EXCEPT ![s.sni][s.k] = [@ EXCEPT !.buf = Append(@, r), !.tx = FALSE]]

\* (variant) the drop of a Sender leaves its channel open
DropSenders_Leak(cs, S) == cs

\* drop of a set of Senders
DropSenders(cs, S) ==
  [h \in Names |->
     [k \in 1..Len(cs[h]) |->
        IF Sender(h, k) \in S THEN [cs[h][k] EXCEPT !.tx = FALSE]
                              ELSE cs[h][k]]]

\* the Senders the TlsKeyLookup owns: queued or pending
LookupSenders ==
  ({queue[j] : j \in 1..Len(queue)} \cup {pending[h] : h \in Names})
     \ {NoSender}

\* --------------------------------------------------------- TlsKeyResolver
\* (variant) an entry still Resolving is treated like a missing one
CacheBranch_NoDedup(ca, sni) ==
  IF ca[sni].st = "Resolved" THEN "Resolved" ELSE "Absent"

\* (variant) a Resolved entry is not replayed but requested again
CacheBranch_NoReplay(ca, sni) ==
  IF ca[sni].st = "Resolving" THEN "Resolving" ELSE "Absent"

\* the arm of `match cache.get(&sni)` that resolve takes
CacheBranch(ca, sni) == ca[sni].st

\* cache.insert(sni.clone(), TlsKeyState::Resolving(rx.resubscribe()))
CacheAfterRequest(ca, sni, c, n) == [ca EXCEPT ![sni] = Resolving(c, n)]

\* (variant) the spawned task holds no strong reference to inner
RcAfterSpawn_NoClone(n) == n

\* let inner = self.inner.clone(), moved into the spawned task
RcAfterSpawn(n) == n + 1

\* (variant) the task returns its result without storing it
CacheAfterTask_Skip(ca, sni, res) == ca

\* (variant) the task that finds the entry Resolved evicts it
CacheAfterTask_Evict(ca, sni, res) ==
  IF ca[sni].st \in {"Absent", "Resolving"}
    THEN [ca EXCEPT ![sni] = Resolved(res)]
    ELSE [ca EXCEPT ![sni] = Absent]

\* (variant) a failure is not kept: the entry is removed
CacheAfterTask_ForgetErr(ca, sni, res) ==
  IF ca[sni].st \in {"Absent", "Resolving"}
    THEN [ca EXCEPT ![sni] = IF res.ok THEN Resolved(res) ELSE Absent]
    ELSE ca

\* the match on cache.get(&sni) in the spawned task
CacheAfterTask(ca, sni, res) ==
  IF ca[sni].st \in {"Absent", "Resolving"}
    THEN [ca EXCEPT ![sni] = Resolved(res)]
    ELSE ca

\* (variant) the task that finds the entry already Resolved fails
TaskOutcome_LoserFails(ca, sni, rv) ==
  IF rv.kind = "value"
    THEN IF ca[sni].st = "Resolved" THEN Err("Failed")
                                    ELSE MapErrFailed(rv.val)
    ELSE Err("RecvError")

\* what the spawned task returns once recv() has returned rv
TaskOutcome(ca, sni, rv) ==
  IF rv.kind = "value" THEN MapErrFailed(rv.val) ELSE Err("RecvError")

\* (variant) dropping the caller's future aborts the task
TaskAfterDrop_Abort(t) == "aborted"

\* the JoinHandle is dropped with the caller's future: the task is detached
TaskAfterDrop(t) == t

\* a resolve() call: the Receiver its task waits on (chan, next), the task
\* ("running", "done", or "none" on a cache hit), the result the future
\* completes with, the caller's future ("pending", "dropped", or "worker"
\* when the provider's worker task awaits it), and whether the call was
\* made before the hostname was answered
Call(sni, c, n, task, res, pre) ==
  [sni |-> sni, chan |-> c, next |-> n, task |-> task, res |-> res,
   fut |-> "pending", pre |-> pre]

One(c) == SetToBag({c})

\* the mpsc channel is closed for the receiver once the only
\* UnboundedSender, owned by TlsKeyResolverInner, is gone
SenderGone == rc = 0

\* new_resolver(): the TlsKeyResolver handle and the TlsKeyLookup
new_resolver ==
  /\ cache = [h \in Names |-> Absent]
  /\ rc = 1
  /\ handles = 1
  /\ queue = <<>>
  /\ chans = [h \in Names |-> <<>>]
  /\ calls = EmptyBag
  /\ lookup = "alive"
  /\ pending = [h \in Names |-> NoSender]
  /\ polls = 0
  /\ hist = [sent |-> [h \in Names |-> 0],
             yielded |-> [h \in Names |-> 0],
             answers |-> [h \in Names |-> <<>>],
             overwrote |-> FALSE,
             misuse |-> FALSE,
             pollNone |-> FALSE]

\* the state of the resolver and the lookup
resolverVars == <<cache, rc, handles, queue, chans, calls, lookup, pending,
                  polls, hist>>

\* impl From<TlsKeys> for TlsKeysHolder
HolderFrom(v) ==
  /\ holder = v
  /\ built = v
  /\ got = <<>>

\* the resolver, and a holder built from TlsKeys::Resolver(resolver)
\* the worker between two requests, and before it is spawned
AtRecv == [st |-> "recv", id |-> 0]
NoWorker == [st |-> "none", id |-> 0]

\* no ServerConfigProvider has been made
NoProvider ==
  /\ provider = "none"
  /\ requests = <<>>
  /\ worker = NoWorker
  /\ reply = <<>>
  /\ served = <<>>

\* EszipFileSystem::new(data, root_path)
EszipFileSystemNew(root) ==
  /\ root_path = root
  /\ fscall = NoFsCall

Init ==
  /\ new_resolver
  /\ HolderFrom(Resolver("inner-1"))
  /\ conv = NoConv
  /\ NoProvider
  /\ EszipFileSystemNew(<<"vfs">>)

\* a call of a FileSystem method of the EszipFileSystem
FsCall(op, a, b) ==
  /\ fscall' = [op |-> op, a |-> a, b |-> b,
                out |-> EszipFileSystem(op, root_path, a, b)]
  /\ UNCHANGED <<root_path, resolverVars, keysVars, providerVars>>

\* TlsKeysHolder::take
take ==
  /\ Len(got) < MaxTakes
  /\ got' = Append(got, holder)
  /\ holder' = HolderAfterTake(holder)
  /\ UNCHANGED <<built, conv, resolverVars, providerVars>>
  /\ UNCHANGED vfsVars

\* v.try_into() for a TlsKeys v
TryIntoOption(v) ==
  /\ conv' = [NoConv EXCEPT !.op = "try_into", !.arg = v, !.out = try_into(v)]
  /\ UNCHANGED <<holder, built, got, resolverVars, providerVars>>
  /\ UNCHANGED vfsVars

\* TlsKeys::from(o) for an Option<TlsKey> o, converted back with try_into()
RoundTrip(o) ==
  /\ conv' = [NoConv EXCEPT !.op = "from", !.opt = o, !.keys = from(o),
                            !.out = try_into(from(o))]
  /\ UNCHANGED <<holder, built, got, resolverVars, providerVars>>
  /\ UNCHANGED vfsVars

\* TlsKeyResolver::clone
CloneResolver ==
  /\ handles > 0
  /\ handles < MaxHandles
  /\ handles' = handles + 1
  /\ rc' = rc + 1
  /\ UNCHANGED <<cache, queue, chans, calls, lookup, pending, polls, hist>>
  /\ UNCHANGED others

\* drop of a TlsKeyResolver handle
DropResolver ==
  /\ handles > 0
  /\ handles' = handles - 1
  /\ rc' = rc - 1
  /\ UNCHANGED <<cache, queue, chans, calls, lookup, pending, polls, hist>>
  /\ UNCHANGED others

\* the future that resolve(sni) returns in the current state
ResolveFuture(sni) ==
  LET br == CacheBranch(cache, sni)
      pre == hist.answers[sni] = <<>>
  IN
  IF br = "Absent"
    THEN Call(sni, Len(chans[sni]) + 1, 0, "running", Err(""), pre)
    ELSE IF br = "Resolving"
      THEN Call(sni, cache[sni].chan,
                Resubscribe(chans[sni][cache[sni].chan]),
                "running", Err(""), pre)
      ELSE Call(sni, 0, 0, "none", MapErrFailed(cache[sni].res), pre)

\* the body of TlsKeyResolver::resolve(sni), up to the return of the
\* future, which owner holds
ResolveBody(sni, owner) ==
  /\ calls' = calls (+) One([ResolveFuture(sni) EXCEPT !.fut = owner])
  /\ LET br == CacheBranch(cache, sni) IN
     IF br = "Absent"
       THEN LET c == Len(chans[sni]) + 1 IN
            /\ cache' = CacheAfterRequest(cache, sni, c, Resubscribe(NewChan))
            \* _ = self.inner.resolution_tx.send((sni.clone(), tx)): the
            \* message, with tx, is dropped if the receiver is gone
            /\ IF lookup = "alive"
                 THEN /\ queue' = Append(queue, Sender(sni, c))
                      /\ chans' = [chans EXCEPT ![sni] = Append(@, NewChan)]
                 ELSE /\ queue' = queue
                      /\ chans' = [chans EXCEPT ![sni] =
                                     Append(@, [NewChan EXCEPT !.tx = FALSE])]
            /\ rc' = RcAfterSpawn(rc)
            /\ hist' = [hist EXCEPT !.sent[sni] = @ + 1]
       ELSE IF br = "Resolving"
         THEN /\ rc' = RcAfterSpawn(rc)
              /\ UNCHANGED <<cache, queue, chans, hist>>
         ELSE UNCHANGED <<cache, queue, chans, rc, hist>>

\* TlsKeyResolver::resolve(sni) called by the application on a handle
Resolve(sni) ==
  /\ handles > 0
  /\ BagCardinality(calls) < MaxCalls
  /\ ResolveBody(sni, "pending")
  /\ UNCHANGED <<handles, lookup, pending, polls>>
  /\ UNCHANGED others

\* the spawned task, from the return of recv.recv() to its end; its result
\* is kept for the caller's future, or discarded if that was dropped
BgTaskRun(c) ==
  /\ BagIn(c, calls)
  /\ c.task = "running"
  /\ LET rv == BroadcastRecv(chans[c.sni][c.chan], c.next) IN
     /\ rv.kind # "empty"
     /\ cache' = IF rv.kind = "value"
                   THEN CacheAfterTask(cache, c.sni, rv.val)
                   ELSE cache
     /\ calls' = IF c.fut = "dropped"
                   THEN calls (-) One(c)
                   ELSE (calls (-) One(c)) (+)
                        One([c EXCEPT !.task = "done",
                                      !.res = TaskOutcome(cache, c.sni, rv)])
  \* the task ends and drops its clone of inner
  /\ rc' = rc - 1
  /\ UNCHANGED <<handles, queue, chans, lookup, pending, polls, hist>>
  /\ UNCHANGED others

\* the caller awaits the returned future and it completes with c.res
Await(c) ==
  /\ BagIn(c, calls)
  /\ c.fut = "pending"
  /\ c.task \in {"done", "none"}
  /\ calls' = calls (-) One(c)
  /\ UNCHANGED <<cache, rc, handles, queue, chans, lookup, pending, polls,
                 hist>>
  /\ UNCHANGED others

\* the caller drops the returned future before it completes
Cancel(c) ==
  /\ BagIn(c, calls)
  /\ c.fut = "pending"
  /\ c.task = "running"
  /\ IF TaskAfterDrop(c.task) = "running"
       THEN /\ calls' = (calls (-) One(c)) (+) One([c EXCEPT !.fut = "dropped"])
            /\ rc' = rc
       ELSE \* the task ends with the future and drops its clone of inner
            /\ calls' = calls (-) One(c)
            /\ rc' = rc - 1
  /\ UNCHANGED <<cache, handles, queue, chans, lookup, pending, polls, hist>>
  /\ UNCHANGED others

\* ----------------------------------------------------------- TlsKeyLookup
\* self.resolution_rx.borrow_mut() is a temporary of the poll_fn closure: it
\* is released when the closure returns, so no borrow of resolution_rx is
\* outstanding while a poll future is suspended
resolution_rx_borrowed == FALSE

\* self.pending.borrow_mut().insert(sni.clone(), sender)
PendingInsert(pe, m) == [pe EXCEPT ![m.sni] = m]

\* (variant) a hostname that is not pending is ignored
LookupResolveOutcome_Ignore(pe, sni) ==
  IF pe[sni] # NoSender THEN "send" ELSE "ignore"

\* .remove(&sni).unwrap(): what TlsKeyLookup::resolve does for this hostname
LookupResolveOutcome(pe, sni) == IF pe[sni] # NoSender THEN "send" ELSE "panic"

\* (variant) the sender is taken from pending without looking at the key
PendingSender_Any(pe, sni) ==
  CHOOSE s \in {pe[h] : h \in Names} \ {NoSender} : TRUE

\* the sender that .remove(&sni) hands to .send(..)
PendingSender(pe, sni) == pe[sni]

\* the pending map after .remove(&sni)
PendingRemove(pe, sni) == [pe EXCEPT ![sni] = NoSender]

\* a panic unwinds the task that drives the TlsKeyLookup: its poll futures
\* and the TlsKeyLookup are dropped, with the senders they hold
Panic ==
  /\ lookup' = "panicked"
  /\ polls' = 0
  /\ queue' = <<>>
  /\ pending' = [h \in Names |-> NoSender]
  /\ chans' = DropSenders(chans, LookupSenders)

\* one poll, by the executor, of a future of TlsKeyLookup::poll while k other
\* such futures are suspended
PollStep(k) ==
  IF resolution_rx_borrowed
    THEN \* BorrowMutError
         Panic /\ hist' = hist
    ELSE
      /\ lookup' = lookup
      /\ IF queue # <<>>
           THEN LET m == Head(queue)
                    old == pending[m.sni]
                IN
                /\ queue' = Tail(queue)
                /\ pending' = PendingInsert(pending, m)
                /\ chans' = DropSenders(chans, {old} \ {NoSender, m})
                /\ polls' = k
                /\ hist' = [hist EXCEPT !.yielded[m.sni] = @ + 1,
                                        !.overwrote = @ \/ old # NoSender]
           ELSE IF SenderGone
             THEN /\ polls' = k
                  /\ hist' = [hist EXCEPT !.pollNone = TRUE]
                  /\ UNCHANGED <<queue, pending, chans>>
             ELSE /\ polls' = k + 1
                  /\ UNCHANGED <<queue, pending, chans, hist>>

\* a caller starts TlsKeyLookup::poll and awaits it
PollCall ==
  /\ lookup = "alive"
  /\ polls < MaxPolls
  /\ PollStep(polls)
  /\ UNCHANGED <<cache, rc, handles, calls>>
  /\ UNCHANGED others

\* a suspended poll future is woken: a request arrived or the channel closed
PollResume ==
  /\ lookup = "alive"
  /\ polls > 0
  /\ queue # <<>> \/ SenderGone
  /\ PollStep(polls - 1)
  /\ UNCHANGED <<cache, rc, handles, calls>>
  /\ UNCHANGED others

\* TlsKeyLookup::resolve(sni, res)
LookupResolve(sni, res) ==
  /\ lookup = "alive"
  /\ LET out == LookupResolveOutcome(pending, sni) IN
     IF out = "send"
       THEN /\ chans' = SendAndDrop(chans, PendingSender(pending, sni), res)
            /\ pending' = PendingRemove(pending, sni)
            /\ hist' = [hist EXCEPT !.answers[sni] = Append(@, res)]
            /\ UNCHANGED <<lookup, polls, queue>>
       ELSE IF out = "panic"
         THEN Panic /\ hist' = [hist EXCEPT !.misuse = TRUE]
         ELSE /\ hist' = [hist EXCEPT !.misuse = TRUE]
              /\ UNCHANGED <<chans, pending, lookup, polls, queue>>
  /\ UNCHANGED <<cache, rc, handles, calls>>
  /\ UNCHANGED others

\* the owner drops the TlsKeyLookup (no poll future borrows it): the queued
\* and the pending senders go with it
DropLookup ==
  /\ lookup = "alive"
  /\ polls = 0
  /\ lookup' = "dropped"
  /\ queue' = <<>>
  /\ pending' = [h \in Names |-> NoSender]
  /\ chans' = DropSenders(chans, LookupSenders)
  /\ UNCHANGED <<cache, rc, handles, calls, polls, hist>>
  /\ UNCHANGED others

\* one iteration of the tests' driving loop:
\*   while let Some(sni) = lookup.poll().await {
\*     lookup.resolve(sni.clone(), Ok(tls_key_for_test(&sni))); }
LoopIteration ==
  /\ lookup = "alive"
  /\ queue # <<>>
  /\ LET m == Head(queue)
         old == pending[m.sni]
         pe == PendingInsert(pending, m)
         cs == DropSenders(chans, {old} \ {NoSender, m})
         res == Ok(tls_key_for_test(m.sni))
     IN
     /\ queue' = Tail(queue)
     /\ LookupResolveOutcome(pe, m.sni) = "send"
     /\ chans' = SendAndDrop(cs, PendingSender(pe, m.sni), res)
     /\ pending' = PendingRemove(pe, m.sni)
     /\ hist' = [hist EXCEPT !.yielded[m.sni] = @ + 1,
                             !.overwrote = @ \/ old # NoSender,
                             !.answers[m.sni] = Append(@, res)]
  /\ UNCHANGED <<cache, rc, handles, calls, lookup, polls>>
  /\ UNCHANGED others

\* poll() returns None: the loop ends and the task drops the TlsKeyLookup
LoopExit ==
  /\ lookup = "alive"
  /\ queue = <<>>
  /\ SenderGone
  /\ lookup' = "dropped"
  /\ chans' = DropSenders(chans, LookupSenders)
  /\ pending' = [h \in Names |-> NoSender]
  /\ hist' = [hist EXCEPT !.pollNone = TRUE]
  /\ UNCHANGED <<cache, rc, handles, queue, calls, polls>>
  /\ UNCHANGED others

\* ------------------------------------------------- ServerConfigProvider
\* TlsKeyResolver::into_server_config_provider(self, alpn): the handle moves
\* into the spawned worker, the closure keeps tx
IntoServerConfigProvider ==
  /\ provider = "none"
  /\ handles > 0
  /\ handles' = handles - 1
  /\ provider' = "alive"
  /\ worker' = AtRecv
  /\ UNCHANGED <<cache, rc, queue, chans, calls, lookup, pending, polls,
                 hist, requests, reply, served, keysVars>>
  /\ UNCHANGED vfsVars

\* the worker's receiver rx exists
WorkerAlive == worker.st \in {"recv", "resolve"}

\* a handshake calls the closure with hello
Handshake(hello) ==
  /\ provider = "alive"
  /\ Len(reply) < MaxHandshakes
  /\ LET sni == server_name_or_default(hello)
         id == Len(reply) + 1
     IN
     \* _ = tx.send((sni, txr)): the message, with txr, is dropped if the
     \* worker's receiver is gone
     IF WorkerAlive
       THEN /\ requests' = Append(requests, [sni |-> sni, id |-> id])
            /\ reply' = Append(reply, Oneshot(hello, sni))
       ELSE /\ requests' = requests
            /\ reply' = Append(reply, OneshotClose(Oneshot(hello, sni)))
  /\ UNCHANGED <<provider, worker, served, resolverVars, keysVars>>
  /\ UNCHANGED vfsVars

\* (variant) the receiver hands out the newest message
RecvIndex_Newest(q) == Len(q)

\* rx.recv(): the position in the channel of the message it returns
RecvIndex(q) == 1

\* txr.send(result), whose failure is ignored
SendReply(id, res) ==
  /\ reply' = [reply EXCEPT ![id] = OneshotSend(@, resolve_internal(res, Alpn))]
  /\ served' = Append(served, id)

\* the worker: rx.recv() returns a request and resolve_internal calls
\* self.resolve(sni); a ready future is awaited without suspension, so the
\* reply is sent and the loop is back at rx.recv()
WorkerRecv ==
  /\ worker.st = "recv"
  /\ requests # <<>>
  /\ LET k == RecvIndex(requests)
         m == requests[k]
         f == ResolveFuture(m.sni)
     IN
     /\ requests' = [i \in 1..(Len(requests) - 1) |->
                       IF i < k THEN requests[i] ELSE requests[i + 1]]
     /\ IF f.task = "none"
          THEN /\ SendReply(m.id, f.res)
               /\ worker' = worker
               /\ UNCHANGED <<cache, rc, queue, chans, calls, hist>>
          ELSE /\ BagCardinality(calls) < MaxCalls
               /\ ResolveBody(m.sni, "worker")
               /\ worker' = [st |-> "resolve", id |-> m.id]
               /\ UNCHANGED <<reply, served>>
  /\ UNCHANGED <<handles, lookup, pending, polls, provider, keysVars>>
  /\ UNCHANGED vfsVars

\* the worker: the future of self.resolve(sni) completes, the configuration
\* is built and the reply sent
WorkerResume ==
  /\ worker.st = "resolve"
  /\ \E d \in BagToSet(calls) :
       /\ d.fut = "worker"
       /\ d.task = "done"
       /\ calls' = calls (-) One(d)
       /\ SendReply(worker.id, d.res)
  /\ worker' = AtRecv
  /\ UNCHANGED <<cache, rc, handles, queue, chans, lookup, pending, polls,
                 hist, provider, requests, keysVars>>
  /\ UNCHANGED vfsVars

\* the closure is dropped, and tx with it
DropProvider ==
  /\ provider = "alive"
  /\ provider' = "dropped"
  /\ UNCHANGED <<requests, worker, reply, served, resolverVars, keysVars>>
  /\ UNCHANGED vfsVars

\* the worker: rx.recv() returns None, the task ends and drops self
WorkerEnd ==
  /\ worker.st = "recv"
  /\ requests = <<>>
  /\ provider = "dropped"
  /\ worker' = [st |-> "ended", id |-> 0]
  /\ rc' = rc - 1
  /\ UNCHANGED <<cache, handles, queue, chans, calls, lookup, pending, polls,
                 hist, provider, requests, reply, served, keysVars>>
  /\ UNCHANGED vfsVars

\* the runtime of the thread is shut down while the closure (Send, in an
\* Arc) lives on: every task of the thread is dropped, with the worker's
\* rx, the queued and the awaited txr, the resolver and the lookup
RuntimeShutdown ==
  /\ WorkerAlive
  /\ worker' = [st |-> "gone", id |-> 0]
  /\ requests' = <<>>
  /\ reply' = [i \in 1..Len(reply) |-> OneshotClose(reply[i])]
  /\ handles' = 0
  /\ rc' = 0
  /\ calls' = EmptyBag
  /\ lookup' = "dropped"
  /\ polls' = 0
  /\ queue' = <<>>
  /\ pending' = [h \in Names |-> NoSender]
  /\ chans' = DropSenders(chans, LookupSenders)
  /\ UNCHANGED <<cache, hist, provider, served, keysVars>>
  /\ UNCHANGED vfsVars

Next ==
  \/ CloneResolver
  \/ DropResolver
  \/ \E sni \in Hosts : Resolve(sni)
  \/ \E c \in BagToSet(calls) : BgTaskRun(c)
  \/ \E c \in BagToSet(calls) : Await(c)
  \/ \E c \in BagToSet(calls) : Cancel(c)
  \/ PollCall
  \/ PollResume
  \/ \E sni \in Hosts : \E res \in Answers(sni) : LookupResolve(sni, res)
  \/ DropLookup

Spec == Init /\ [][Next]_vars

\* the records of the tasks that can be waiting in recv()
RunningCalls ==
  {[Call(h, 1, n, "running", Err(""), pre) EXCEPT !.fut = f] :
     h \in Names, n \in 0..1, pre \in BOOLEAN, f \in {"pending", "dropped"}}

\* the Lookup driven by the tests' loop; the executor runs every spawned
\* task that has been woken: the background tasks of resolve() and the task
\* of the driving loop
LoopNext ==
  \/ CloneResolver
  \/ DropResolver
  \/ \E sni \in Hosts : Resolve(sni)
  \/ \E c \in BagToSet(calls) : BgTaskRun(c)
  \/ \E c \in BagToSet(calls) : Await(c)
  \/ \E c \in BagToSet(calls) : Cancel(c)
  \/ LoopIteration
  \/ LoopExit

LoopSpec ==
  /\ Init
  /\ [][LoopNext]_vars
  /\ \A c \in RunningCalls : WF_vars(BgTaskRun(c))
  /\ WF_vars(LoopIteration)
  /\ WF_vars(LoopExit)

\* a driving side whose polls find a request (or the closed channel) at
\* once and which answers only hostnames that are pending, with their key,
\* and may drop the TlsKeyLookup at any point; the executor runs every
\* background task whose recv() can return
DropNext ==
  \/ CloneResolver
  \/ DropResolver
  \/ \E sni \in Hosts : Resolve(sni)
  \/ \E c \in BagToSet(calls) : BgTaskRun(c)
  \/ \E c \in BagToSet(calls) : Await(c)
  \/ \E c \in BagToSet(calls) : Cancel(c)
  \/ (queue # <<>> \/ SenderGone) /\ PollCall
  \/ \E sni \in Hosts :
       /\ pending[sni] # NoSender
       /\ LookupResolve(sni, Ok(tls_key_for_test(sni)))
  \/ DropLookup

DropSpec ==
  /\ Init
  /\ [][DropNext]_vars
  /\ \A c \in RunningCalls : WF_vars(BgTaskRun(c))

\* a holder built from any TlsKeys, its take() calls, and the conversions
KeysInit ==
  /\ new_resolver
  /\ \E v \in TlsKeysValues : HolderFrom(v)
  /\ conv = NoConv
  /\ NoProvider
  /\ EszipFileSystemNew(<<"vfs">>)

KeysNext ==
  \/ take
  \/ \E v \in TlsKeysValues : TryIntoOption(v)
  \/ \E o \in OptionValues : RoundTrip(o)

KeysSpec == KeysInit /\ [][KeysNext]_vars

\* the results the driving side may hand to TlsKeyLookup::resolve when the
\* keys go to rustls: also a key that rustls rejects
ProviderAnswers(sni) == Answers(sni) \cup {Ok(MalformedKey)}

\* the resolver behind a ServerConfigProvider: handshakes, the worker, the
\* background tasks, and a driving side whose polls find a request at once
\* and which answers the pending hostnames
ProviderNext ==
  \/ IntoServerConfigProvider
  \/ \E hello \in Hellos : Handshake(hello)
  \/ WorkerRecv
  \/ WorkerResume
  \/ DropProvider
  \/ WorkerEnd
  \/ RuntimeShutdown
  \/ \E c \in BagToSet(calls) : BgTaskRun(c)
  \/ queue # <<>> /\ PollCall
  \/ \E sni \in Names : \E res \in ProviderAnswers(sni) :
       /\ pending[sni] # NoSender
       /\ LookupResolve(sni, res)
  \/ DropLookup

ProviderSpec == Init /\ [][ProviderNext]_vars

\* an EszipFileSystem with any root, and the calls of its methods
VfsInit ==
  /\ new_resolver
  /\ HolderFrom(Null)
  /\ conv = NoConv
  /\ NoProvider
  /\ \E root \in Roots : EszipFileSystemNew(root)

VfsNext ==
  \/ \E op \in OnePathOps : \E a \in Paths : FsCall(op, a, NoPath)
  \/ \E op \in TwoPathOps : \E a, b \in Paths : FsCall(op, a, b)

VfsSpec == VfsInit /\ [][VfsNext]_vars

\* ------------------------------------------------------------- properties
CallSet == BagToSet(calls)

\* the number of outstanding resolve() calls for hostname h
CallsFor(h) ==
  BagCardinality([c \in {d \in CallSet : d.sni = h} |-> calls[c]])

\* the future of call c is complete: awaited, it yields c.res
Complete(c) == c.task \in {"done", "none"}

Answered(h) == hist.answers[h] # <<>>
\* the first result handed to TlsKeyLookup::resolve for h
Answer(h) == IF Answered(h) THEN hist.answers[h][1] ELSE Err("")

\* C1: for every hostname at most one (hostname, sender) request is ever
\* sent to the Lookup, whatever the resolve() calls, answers and
\* cancellations: poll() yields the hostname at most once, the Lookup never
\* holds two senders for it, and pending is never overwritten.
C1_SingleRequestPerHost ==
  \A h \in Hosts :
    /\ hist.sent[h] <= 1
    /\ hist.yielded[h] <= hist.sent[h]
    /\ Len(chans[h]) = hist.sent[h]
    /\ Cardinality({s \in LookupSenders : s.sni = h}) <= 1
    /\ ~hist.overwrote

\* two resolve() calls for a hostname are outstanding, its request has been
\* yielded by poll() and answered
C1_Witness ==
  \E h \in Hosts :
    /\ CallsFor(h) >= 2
    /\ hist.yielded[h] = 1
    /\ Answered(h)

\* C2: every resolve(h) call issued before TlsKeyLookup::resolve(h, Ok(k))
\* completes with Ok(k), the key given to the lookup; until its task has
\* run, that value is what its receiver will receive.
C2_FanOut ==
  \A c \in CallSet :
    (c.pre /\ Answered(c.sni) /\ Answer(c.sni).ok) =>
       /\ Complete(c) => c.res = Answer(c.sni)
       /\ c.task = "running" =>
            BroadcastRecv(chans[c.sni][c.chan], c.next)
              = [kind |-> "value", val |-> Answer(c.sni)]

\* two calls issued before the answer have both completed with the key
C2_Witness ==
  \E c \in CallSet :
    /\ calls[c] >= 2
    /\ c.pre /\ c.task = "done"
    /\ Answered(c.sni) /\ c.res = Answer(c.sni) /\ c.res.ok

\* C3: when hostname h is answered with Ok(k), every resolve(h) call, issued
\* before the answer or at any point after it, completes with Ok(k).
C3_EveryCallSeesAnswer ==
  \A c \in CallSet :
    (Complete(c) /\ Answered(c.sni) /\ Answer(c.sni).ok) =>
       c.res = Answer(c.sni)

\* c is the call that this step's resolve() has added
NewCall(c) ==
  /\ BagCardinality(calls') = BagCardinality(calls) + 1
  /\ CopiesIn(c, calls') = CopiesIn(c, calls) + 1

\* C4: once the cache entry of hostname h is Resolved, a resolve(h) call
\* returns an already complete future that carries the stored result (the
\* answer given to the lookup; an error as the generic failure), and the
\* call sends no request and creates no channel.
C4_CacheReplay ==
  /\ [](\A h \in Hosts :
          cache[h].st = "Resolved" =>
            Answered(h) /\ cache[h].res = Answer(h))
  /\ [](\A c \in CallSet :
          c.task = "none" =>
            /\ cache[c.sni].st = "Resolved"
            /\ c.res = MapErrFailed(Answer(c.sni)))
  /\ [][\A c \in BagToSet(calls') :
          (NewCall(c) /\ cache[c.sni].st = "Resolved") =>
             /\ c.task = "none"
             /\ c.res = MapErrFailed(cache[c.sni].res)
             /\ queue' = queue
             /\ chans' = chans
             /\ hist' = hist
             /\ cache' = cache]_vars

\* a call made on a Resolved entry holds the key that was answered
C4_Witness ==
  \E c \in CallSet :
    /\ c.task = "none" /\ c.res.ok
    /\ c.res = Answer(c.sni)
    /\ hist.sent[c.sni] = 1 /\ hist.yielded[c.sni] = 1

\* a background task of hostname h that subscribed before any answer
FirstWaiter(h) ==
  \E c \in CallSet : c.sni = h /\ c.task = "running" /\ c.next = 0

\* C5: a resolve(h) future dropped before it completes leaves its background
\* task running: a Resolving entry whose channel is open or holds the answer
\* always has a task that will complete it, an answered hostname with no
\* task left is Resolved with the answer, the request is sent once, and
\* once answered the entry eventually becomes Resolved; a resolve(h) call
\* on that entry succeeds with the answered key.
C5_CancellationSafe ==
  /\ [](\A h \in Hosts :
          /\ hist.sent[h] <= 1
          /\ (cache[h].st = "Resolving"
                /\ (chans[h][cache[h].chan].tx \/ Answered(h)))
               => FirstWaiter(h)
          /\ (Answered(h) /\ ~FirstWaiter(h))
               => cache[h] = Resolved(Answer(h)))
  /\ [](\A c \in CallSet :
          (c.task = "none" /\ Answer(c.sni).ok) => c.res = Answer(c.sni))
  /\ \A h \in Hosts : Answered(h) ~> (cache[h] = Resolved(Answer(h)))

\* the future of a call was dropped, its task still waits, the answer has
\* arrived on its channel, and the entry is not Resolved yet
C5_Witness ==
  \E c \in CallSet :
    /\ c.fut = "dropped" /\ c.task = "running"
    /\ CallsFor(c.sni) = 1
    /\ Answered(c.sni) /\ Answer(c.sni).ok
    /\ cache[c.sni].st = "Resolving"

\* C6: once TlsKeyLookup::resolve(h, Err(e)) was called, every resolve(h)
\* call, waiting at that moment or made later, completes with an error; the
\* entry of h is Resolved(Err(e)) as soon as the task of one of the waiters
\* has run; and no further request for h is sent or yielded.
C6_FailureReplay ==
  /\ [](\A h \in Hosts :
          (Answered(h) /\ ~Answer(h).ok) =>
             /\ hist.sent[h] = 1 /\ hist.yielded[h] = 1
             /\ hist.answers[h] = <<Answer(h)>>
             /\ \A s \in LookupSenders : s.sni # h
             /\ \/ cache[h] = Resolved(Answer(h))
                \/ cache[h].st = "Resolving" /\ FirstWaiter(h)
             /\ \A c \in CallSet :
                  c.sni = h =>
                    /\ Complete(c) => ~c.res.ok
                    /\ c.task = "running" =>
                         LET rv == BroadcastRecv(chans[h][c.chan], c.next) IN
                         \/ rv.kind = "closed"
                         \/ rv.kind = "value" /\ rv.val = Answer(h))
  /\ [][\A c \in BagToSet(calls') :
          (NewCall(c) /\ Answered(c.sni) /\ ~Answer(c.sni).ok) =>
             queue' = queue /\ chans' = chans /\ hist' = hist]_vars

\* after a failure answer the entry is Resolved(Err) and a later call has
\* completed with the generic failure
C6_Witness ==
  \E c \in CallSet :
    /\ Answered(c.sni) /\ ~Answer(c.sni).ok
    /\ cache[c.sni] = Resolved(Answer(c.sni))
    /\ c.task = "none" /\ c.res = Err("Failed")

C8_Shutdown ==
  /\ [](hist.pollNone =>
          /\ handles = 0
          /\ rc = 0
          /\ \A c \in CallSet : c.task # "running"
          /\ queue = <<>>
          /\ \A h \in Hosts : hist.yielded[h] = hist.sent[h]
          /\ lookup = "dropped")
  /\ (handles = 0) ~> hist.pollNone

\* the loop has ended after it yielded and answered a request
C8_Witness ==
  /\ hist.pollNone
  /\ lookup = "dropped"
  /\ \E h \in Hosts : hist.yielded[h] = 1 /\ Answered(h)

\* C9: TlsKeyLookup::resolve(h, r) panics whenever h is not pending: never
\* yielded by poll(), or answered already; r is delivered only for a
\* pending hostname, which the call removes from pending, so that no
\* hostname is answered twice; a delivered r has a task waiting to receive it.
C9_MisuseIsFatal ==
  /\ [](hist.misuse => lookup = "panicked")
  /\ [](\A h \in Hosts :
          /\ Len(hist.answers[h]) <= hist.yielded[h]
          /\ Len(hist.answers[h]) <= 1
          /\ Answered(h) => pending[h] = NoSender)
  /\ [][\A h \in Hosts :
          hist.answers'[h] # hist.answers[h] =>
            /\ pending[h] # NoSender
            /\ pending'[h] = NoSender
            /\ lookup' = "alive"
            /\ FirstWaiter(h)]_vars

\* a hostname was answered, and a further answer has panicked
C9_Witness ==
  /\ lookup = "panicked"
  /\ hist.misuse
  /\ \A h \in Hosts : hist.yielded[h] = 1 /\ Answered(h)

\* C10: a second poll() started while an earlier one is suspended panics on
\* the borrow of the receiver, so that never two poll futures are suspended.
C10_SecondPollIsFatal == polls <= 1
\* the TlsKeyLookup is gone: dropped by its owner or by a panic
LookupGone == lookup # "alive"

\* a caller awaits a resolve(h) future whose task has not run yet
Waiting(h) ==
  \E c \in CallSet : c.sni = h /\ c.task = "running" /\ c.fut = "pending"

\* C11: once the TlsKeyLookup is gone with hostname h unanswered (h never
\* requested, its request queued, or yielded by poll()), every completed
\* resolve(h) future holds an error, the task of every other resolve(h)
\* call finds its channel closed, so that it is not blocked and ends with
\* an error, the cache entry of h never becomes Resolved, and a caller that
\* waits for h sees a future complete with an error unless the waiting
\* callers drop their futures.
C11_ChannelFailure ==
  /\ [](\A h \in Hosts :
          (LookupGone /\ ~Answered(h)) =>
             /\ cache[h].st # "Resolved"
             /\ \A c \in CallSet :
                  c.sni = h =>
                    /\ Complete(c) => ~c.res.ok
                    /\ c.task = "running" =>
                         /\ BroadcastRecv(chans[h][c.chan], c.next).kind
                              = "closed"
                         /\ ~TaskOutcome(cache, h,
                               BroadcastRecv(chans[h][c.chan], c.next)).ok)
  /\ \A h \in Hosts :
       (LookupGone /\ ~Answered(h) /\ Waiting(h))
         ~> (\/ \E c \in CallSet : c.sni = h /\ Complete(c) /\ ~c.res.ok
             \/ ~Waiting(h))

\* the TlsKeyLookup was dropped after poll() yielded a hostname and before
\* its answer; a call made before the drop has completed with an error and
\* a call made after the drop waits on the closed channel
C11_Witness ==
  \E c1, c2 \in CallSet :
    /\ lookup = "dropped"
    /\ c1.sni = c2.sni
    /\ hist.yielded[c1.sni] = 1 /\ ~Answered(c1.sni)
    /\ c1.task = "done" /\ c1.res = Err("RecvError")
    /\ c2.task = "running" /\ c2.next = 0
\* C12: the first take() returns the TlsKeys the holder was built from and
\* leaves Null; every later take() returns Null; every take() returns a
\* value (none fails); the value the holder was built from is returned by
\* at most one take().
C12_TakeOnce ==
  /\ (got # <<>> => got[1] = built /\ holder = Null)
  /\ \A i \in 2..Len(got) : got[i] = Null
  /\ got \in Seq(TlsKeysValues)
  /\ Cardinality({i \in 1..Len(got) : got[i] = built}) <= 1

\* C12 as amended: the same, and the value the holder was built from is
\* returned by at most one take() unless it is Null, which a holder built
\* from Null returns every time.
C12_TakeOnceUnlessNull ==
  /\ (got # <<>> => got[1] = built /\ holder = Null)
  /\ \A i \in 2..Len(got) : got[i] = Null
  /\ got \in Seq(TlsKeysValues)
  /\ built # Null => Cardinality({i \in 1..Len(got) : got[i] = built}) <= 1
  /\ built = Null => \A i \in 1..Len(got) : got[i] = built

\* a holder built from a Resolver was taken three times
C12_Witness ==
  /\ built.tag = "Resolver"
  /\ Len(got) = MaxTakes
  /\ got[1] = built /\ got[2] = Null
\* C13: try_into() turns Null into Ok(None), Static(k) into Ok(Some(k)),
\* and fails for Resolver(r) with Err of that same Resolver(r); every
\* Option<TlsKey> o converted into TlsKeys and back gives Ok(o); and the
\* TlsKeys made from an Option is never a Resolver.
C13_Conversion ==
  /\ conv.op = "try_into" =>
       /\ conv.arg = Null => conv.out = OkOption(None)
       /\ \A k \in Keys : conv.arg = Static(k) => conv.out = OkOption(Some(k))
       /\ conv.arg.tag = "Resolver" =>
            /\ ~conv.out.ok
            /\ conv.out.err = conv.arg
            /\ conv.out.err.resolver = conv.arg.resolver
  /\ conv.op = "from" =>
       /\ conv.out = OkOption(conv.opt)
       /\ conv.keys.tag # "Resolver"
       /\ conv.keys.tag = "Null" <=> conv.opt = None
       /\ conv.keys.tag = "Static" <=> conv.opt.some

\* a Resolver was converted and came back as the error
C13_Witness ==
  /\ conv.op = "try_into"
  /\ conv.arg = Resolver("inner-2")
  /\ conv.out = ErrKeys(Resolver("inner-2"))
\* C14: the future that the provider callback returned for a handshake is
\* Ok(config) only if the hostname was answered with a key and the
\* ServerConfig was built from that key and the alpn; every other completed
\* future is an io::Error of kind InvalidData: after a failed resolution,
\* a rejected key, or a reply channel closed because the worker is gone;
\* a hello without SNI is a request for the empty hostname like any other,
\* and a handshake whose reply channel is open is queued or being resolved.
C14_HandshakeErrors ==
  \A id \in 1..Len(reply) :
    LET o == reply[id]
        out == ProviderFuture(o)
        h == o.sni
    IN
    /\ h = (IF o.hello.some THEN o.hello.name ELSE "")
    /\ (out.st = "ready" /\ out.ok) =>
         /\ o.st = "sent"
         /\ Answered(h) /\ Answer(h).ok /\ Answer(h).key \in ValidKeys
         /\ out.config = [key |-> Answer(h).key, alpn |-> Alpn]
    /\ (out.st = "ready" /\ ~out.ok) => out.kind = "InvalidData"
    /\ (o.st = "sent" /\ ~(Answered(h) /\ Answer(h).ok)) =>
         out = IoError("InvalidData")
    /\ (o.st = "sent" /\ Answered(h) /\ Answer(h).key \notin ValidKeys) =>
         out = IoError("InvalidData")
    /\ o.st = "closed" => out = IoError("InvalidData") /\ worker.st = "gone"
    /\ o.st = "open" =>
         /\ out = Pending
         /\ \/ worker.st = "resolve" /\ worker.id = id
            \/ \E i \in 1..Len(requests) : requests[i].id = id

\* three handshakes: one got its configuration, one without SNI failed
\* on a key that rustls rejects, and one lost its reply channel
C14_Witness ==
  /\ Len(reply) = 3
  /\ \E i, j, k \in 1..3 :
       /\ ProviderFuture(reply[i]).ok
       /\ reply[j].st = "sent" /\ reply[j].hello = NoSni
       /\ Answer(reply[j].sni) = Ok(MalformedKey)
       /\ reply[k].st = "closed"
\* C15: the cache entry of a hostname only moves from absent to Resolving
\* and from Resolving to Resolved: an absent entry never becomes Resolved
\* in one step, a Resolving entry keeps its receiver until it is Resolved,
\* and a Resolved(r) entry never changes again, whatever task completes
\* later; a Resolved entry holds the first answer given for the hostname.
C15_CacheLifecycle ==
  /\ [][\A h \in Hosts :
          /\ cache[h].st = "Absent" =>
               cache'[h].st \in {"Absent", "Resolving"}
          /\ cache[h].st = "Resolving" =>
               cache'[h] = cache[h] \/ cache'[h].st = "Resolved"
          /\ cache[h].st = "Resolved" => cache'[h] = cache[h]]_vars
  /\ [](\A h \in Hosts :
          /\ cache[h].st = "Resolved" =>
               Answered(h) /\ cache[h].res = Answer(h)
          /\ cache[h].st = "Absent" => hist.sent[h] = 0)

\* two tasks of a hostname answered with a failure have completed: the
\* first wrote Resolved(Err), the second found it and left it
C15_Witness ==
  \E c \in CallSet :
    /\ c.task = "done" /\ c.next = 0 /\ calls[c] >= 2
    /\ ~Answer(c.sni).ok
    /\ cache[c.sni] = Resolved(Answer(c.sni))
\* C16: with the driving loop of the tests and an executor that runs every
\* woken task, every hostname that was requested is eventually answered and
\* its cache entry eventually Resolved with the answer; a caller that waits
\* for h eventually holds a completed future (unless the waiting callers
\* drop theirs); and no resolve(h) future is complete while h is not
\* answered.
C16_Liveness ==
  /\ \A h \in Hosts :
       /\ (hist.sent[h] > 0) ~> Answered(h)
       /\ (hist.sent[h] > 0) ~> (cache[h] = Resolved(Answer(h)))
       /\ Waiting(h) ~>
            (\/ \E c \in CallSet : c.sni = h /\ Complete(c)
             \/ ~Waiting(h))
  /\ [](\A c \in CallSet : Complete(c) => Answered(c.sni))
  /\ [](\A h \in Hosts :
          (hist.sent[h] > 0 /\ ~Answered(h)) =>
             /\ cache[h].st = "Resolving"
             /\ \A c \in CallSet : c.sni = h => c.task = "running")

\* both hostnames were requested and answered by the loop, both entries
\* are Resolved and a call for each has completed
C16_Witness ==
  \A h \in Hosts :
    /\ cache[h] = Resolved(Ok(tls_key_for_test(h)))
    /\ \E c \in CallSet : c.sni = h /\ c.task = "done" /\ c.res.ok
\* the calls of resolve() that the worker awaits
WorkerCalls == {c \in CallSet : c.fut = "worker"}

\* the worker handles the requests one at a time in arrival order: the
\* replies were sent in the order of the requests, the worker awaits at
\* most one resolve() call, that of the request after the last reply, and
\* the requests behind it are queued in their order
Serialized ==
  /\ served = [i \in 1..Len(served) |-> i]
  /\ \A c \in WorkerCalls : calls[c] = 1
  /\ Cardinality(WorkerCalls) <= 1
  /\ worker.st = "resolve" =>
       /\ worker.id = Len(served) + 1
       /\ \E c \in WorkerCalls : c.sni = reply[worker.id].sni
  /\ worker.st # "resolve" => WorkerCalls = {}
  /\ WorkerAlive =>
       LET first == Len(served) + (IF worker.st = "resolve" THEN 2 ELSE 1) IN
       /\ Len(requests) = Len(reply) - first + 1
       /\ \A i \in 1..Len(requests) :
            requests[i] = [sni |-> reply[first + i - 1].sni,
                           id |-> first + i - 1]
  /\ \A id \in 1..Len(reply) :
       reply[id].st = "sent" <=> id <= Len(served)

\* C17: the worker handles the requests one at a time in arrival order,
\* and a handshake has its reply only if the hostname of every handshake
\* before it has been answered.
C17_Serialization ==
  /\ Serialized
  /\ \A id \in 1..Len(reply) :
       reply[id].st = "sent" =>
         \A j \in 1..(id - 1) : Answered(reply[j].sni)

\* C17 as amended: the worker handles the requests one at a time in
\* arrival order, and a handshake has its reply only if every handshake
\* before it has its reply, whose hostname has then been answered unless
\* the TlsKeyLookup is gone.
C17_SerializationOrFailure ==
  /\ Serialized
  /\ \A id \in 1..Len(reply) :
       reply[id].st = "sent" =>
         \A j \in 1..(id - 1) :
           /\ reply[j].st = "sent"
           /\ Answered(reply[j].sni) \/ LookupGone

\* the hostname of the first handshake is cached, the worker awaits the
\* unanswered hostname of the second, and the third handshake, for the
\* cached hostname, is queued without a reply
C17_Witness ==
  /\ Len(reply) = 3
  /\ served = <<1>>
  /\ worker = [st |-> "resolve", id |-> 2]
  /\ reply[3].sni = reply[1].sni
  /\ cache[reply[1].sni].st = "Resolved"
  /\ ~Answered(reply[2].sni) /\ lookup = "alive"
  /\ requests = <<[sni |-> reply[3].sni, id |-> 3]>>
  /\ reply[3].st = "open"
\* the path arguments of the last call
PathArgs == IF fscall.op \in TwoPathOps THEN {fscall.a, fscall.b}
                                        ELSE {fscall.a}

\* C18: a call of a path-taking method with a path argument within
\* root_path is not delegated to RealFs: it returns NotSupported, except
\* realpath, which returns the given path.
C18_VfsInterception ==
  (fscall.op # "none" /\ \E p \in PathArgs : is_path_within(root_path, p)) =>
     IF fscall.op \in RealpathOps THEN fscall.out = OkPath(fscall.a)
                                  ELSE fscall.out = NotSupported
\* C19: with the driving loop of the tests, which answers each polled
\* hostname h with tls_key_for_test(h), the calls resolve("example1.com")
\* and resolve("example2.com"), both made before any answer, complete
\* with a key equal to tls_key_for_test("example.com").
C19_TestExpectsExampleCom ==
  \A c \in CallSet :
    (Complete(c) /\ c.pre /\ c.sni \in {"example1.com", "example2.com"}) =>
       c.res = Ok(tls_key_for_test("example.com"))
====
